---- MODULE Spec2Model ----
(***************************************************************************)
(* IndexedDBFactory (content/browser/indexed_db/indexed_db_factory.cc):    *)
(* the registry of per-origin backing stores and of (origin, name)         *)
(* databases, with the grace-period close timer of each backing store.     *)
(*                                                                         *)
(* Every C++ method is an operator from a factory state (a record of the   *)
(* members) to the factory state after the call; an action applies one     *)
(* public entry point, or one callback, to the current state.              *)
(***************************************************************************)
EXTENDS Integers, Sequences, FiniteSets, TLC

\* Bound of the model: how many database names callers use.
NumNames == 2

\* The inputs callers supply: origin identifiers (in the order of their
\* strings) and database names.
OriginOrder == <<"a", "b">>
Origins == {OriginOrder[i] : i \in 1..Len(OriginOrder)}
NameOrder == <<"db1", "db2", "db3", "db4">>
Names == {NameOrder[i] : i \in 1..NumNames}

\* kBackingStoreGracePeriodMs: the delay of the close timer. The model keeps
\* no clock: an armed timer may expire at any later step.
kBackingStoreGracePeriodMs == 2000

\* A null scoped_refptr<IndexedDBBackingStore>.
NoStore == <<>>

VARIABLES
  backing_store_map_,            \* file identifier -> backing store (object id)
  session_only_backing_stores_,  \* set of backing stores (object ids)
  database_map_,                 \* <<origin, name>> -> database (object id)
  stores,                        \* live backing-store objects, by object id
  databases,                     \* live database objects, by object id
  context_destroyed,             \* ContextDestroyed has run
  dcheck_is_on,                  \* the build: DCHECKs compiled in or not
  dcheck_failed,                 \* DCHECKs whose condition was false when reached
  crashed,                       \* the process has aborted
  last                           \* the last call: its arguments and what it invoked

vars == <<backing_store_map_, session_only_backing_stores_, database_map_,
          stores, databases, context_destroyed, dcheck_is_on,
          dcheck_failed, crashed, last>>

\* ComputeFileIdentifier: origin_identifier + "@1"
ComputeFileIdentifier(origin_identifier) == <<origin_identifier, "@1">>

\* The keys backing_store_map_ can hold, in the order std::map iterates them.
FileIdentifierOrder ==
  [i \in 1..Len(OriginOrder) |-> ComputeFileIdentifier(OriginOrder[i])]

\* IndexedDBDatabase::Identifier: std::pair(origin_identifier, name)
Identifier(origin_identifier, name) == <<origin_identifier, name>>

\* The members of the factory (and the objects they refer to) as one record,
\* with the callbacks the running call has invoked so far.
Factory ==
  [backing_store_map_ |-> backing_store_map_,
   session_only_backing_stores_ |-> session_only_backing_stores_,
   database_map_ |-> database_map_,
   stores |-> stores,
   databases |-> databases,
   dcheck_failed |-> dcheck_failed,
   crashed |-> crashed,
   calls |-> <<>>]

\* std::map::erase(key) and operator[]= on a map held as a function.
MapErase(m, k) == [x \in DOMAIN m \ {k} |-> m[x]]
MapPut(m, k, v) == [x \in DOMAIN m \cup {k} |-> IF x = k THEN v ELSE m[x]]

\* The number of scoped_refptr<IndexedDBBackingStore> that refer to store s
\* between statements: the registry's, the session-only set's, and one per
\* database whose backing_store() is s.
RefCount(f, s) ==
  Cardinality({i \in DOMAIN f.backing_store_map_ : f.backing_store_map_[i] = s})
  + (IF s \in f.session_only_backing_stores_ THEN 1 ELSE 0)
  + Cardinality({d \in DOMAIN f.databases :
                   f.databases[d].backing_store = s})

\* The number of scoped_refptr<IndexedDBDatabase> that refer to database d
\* between statements: the registry's, and its connections' and pending
\* calls' (counted as one while it has any).
DatabaseRefCount(f, d) ==
  Cardinality({k \in DOMAIN f.database_map_ : f.database_map_[k] = d})
  + (IF f.databases[d].has_connections THEN 1 ELSE 0)

\* A database whose last reference is dropped is destroyed, and drops its
\* reference to its backing store.
DestroyUnreferencedDatabases(f) ==
  [f EXCEPT !.databases =
     [d \in {e \in DOMAIN f.databases : DatabaseRefCount(f, e) > 0}
        |-> f.databases[d]]]

\* A backing store whose last reference is dropped is destroyed, and its
\* close timer with it.
DestroyUnreferenced(f) ==
  LET g == DestroyUnreferencedDatabases(f)
  IN  [g EXCEPT !.stores = [s \in {t \in DOMAIN g.stores : RefCount(g, t) > 0}
                              |-> g.stores[s]]]

\* Object ids stand for addresses. A new object gets an id that no live
\* object has: the identifier it is made for, with the least number not in
\* use for that identifier.
LeastUnused(used) ==
  CHOOSE i \in 1..(Cardinality(used) + 1) :
    i \notin used /\ \A j \in 1..(i - 1) : j \in used

NewStore(f, file_identifier) ==
  <<file_identifier,
    LeastUnused({s[2] : s \in {t \in DOMAIN f.stores :
                                 t[1] = file_identifier}})>>

NewDatabase(f, unique_identifier) ==
  <<unique_identifier,
    LeastUnused({d[2] : d \in {e \in DOMAIN f.databases :
                                 e[1] = unique_identifier}})>>

\* DCHECK(cond): aborts in a build with DCHECKs, compiled out otherwise.
DCheck(f, cond, label) ==
  IF cond THEN f
  ELSE [f EXCEPT !.dcheck_failed = @ \cup {label},
                 !.crashed = dcheck_is_on]

\* callbacks->OnError(...), OnSuccess(...), database->OpenConnection(...), ...
Call(f, what) == [f EXCEPT !.calls = Append(@, what)]

\* close_timer()->Stop() of store s: the call, with whether the timer was
\* running, and the timer idle afterwards.
StopTimer(f, s) ==
  Call([f EXCEPT !.stores[s].close_timer = {}],
       <<"close_timer()->Stop", s, f.stores[s].close_timer # {}>>)

\* What the undefined behaviour of a release build does when a map lookup is
\* DCHECKed to succeed and fails: dereferencing end() yields a crash or a
\* garbage reference count; erasing end() yields a crash or nothing visible.
UBOutcomes == [has_one_ref : {"crash", "false", "true"},
               erase_end : {"crash", "none"}]

Abort(f) == [f EXCEPT !.crashed = TRUE]

\* A HasLastBackingStoreReference that answers true for every registered
\* store.
HasLastBackingStoreReference_AlwaysLast(f, identifier, ub) ==
  LET found == identifier \in DOMAIN f.backing_store_map_
      g == DCheck(f, found, "HasLastBackingStoreReference:88")
  IN  IF g.crashed THEN [state |-> g, result |-> FALSE]
      ELSE IF found THEN [state |-> g, result |-> TRUE]
      ELSE IF ub.has_one_ref = "crash"
        THEN [state |-> Abort(g), result |-> FALSE]
        ELSE [state |-> g, result |-> ub.has_one_ref = "true"]

\* IndexedDBFactory::HasLastBackingStoreReference
\* Returns the state (a DCHECK may abort) and the result.
HasLastBackingStoreReference(f, identifier, ub) ==
  LET found == identifier \in DOMAIN f.backing_store_map_
      g == DCheck(f, found, "HasLastBackingStoreReference:88")
  IN  IF g.crashed THEN [state |-> g, result |-> FALSE]
      ELSE IF found
        THEN [state |-> g,
              result |-> RefCount(g, g.backing_store_map_[identifier]) = 1]
      ELSE IF ub.has_one_ref = "crash"
        THEN [state |-> Abort(g), result |-> FALSE]
        ELSE [state |-> g, result |-> ub.has_one_ref = "true"]

\* IndexedDBFactory::CloseBackingStore
CloseBackingStore(f, identifier, ub) ==
  LET found == identifier \in DOMAIN f.backing_store_map_
      g == DCheck(f, found, "CloseBackingStore:74")
  IN  IF g.crashed THEN g
      ELSE IF found
        THEN LET h == StopTimer(g, g.backing_store_map_[identifier])
             IN  [h EXCEPT !.backing_store_map_ = MapErase(@, identifier)]
      ELSE IF ub.erase_end = "crash" THEN Abort(g) ELSE g

\* IndexedDBFactory::MaybeCloseBackingStore
MaybeCloseBackingStore(f, identifier, ub) ==
  LET r == HasLastBackingStoreReference(f, identifier, ub)
  IN  IF r.state.crashed \/ ~r.result THEN r.state
      ELSE CloseBackingStore(r.state, identifier, ub)

\* close_timer()->Start(FROM_HERE, kBackingStoreGracePeriodMs,
\*     Bind(&IndexedDBFactory::MaybeCloseBackingStore, this, identifier))
StartTimer(f, s, identifier) ==
  [f EXCEPT !.stores[s].close_timer =
              {[identifier |-> identifier,
                delay_ms |-> kBackingStoreGracePeriodMs]}]

\* A ReleaseBackingStore that closes at once whatever immediate says.
ReleaseBackingStore_NoGrace(f, identifier, immediate, ub) ==
  LET r == HasLastBackingStoreReference(f, identifier, ub)
  IN  IF r.state.crashed \/ ~r.result THEN r.state
      ELSE CloseBackingStore(r.state, identifier, ub)

\* A ReleaseBackingStore that starts the grace period whatever immediate
\* says.
ReleaseBackingStore_AlwaysGrace(f, identifier, immediate, ub) ==
  LET r == HasLastBackingStoreReference(f, identifier, ub)
      g == r.state
  IN  IF g.crashed \/ ~r.result THEN g
      ELSE IF identifier \notin DOMAIN g.backing_store_map_ THEN Abort(g)
      ELSE LET s == g.backing_store_map_[identifier]
               h == DCheck(g, g.stores[s].close_timer = {},
                           "ReleaseBackingStore:58")
           IN  IF h.crashed THEN h ELSE StartTimer(h, s, identifier)

\* IndexedDBFactory::ReleaseBackingStore
ReleaseBackingStore(f, identifier, immediate, ub) ==
  LET r == HasLastBackingStoreReference(f, identifier, ub)
      g == r.state
  IN  IF g.crashed \/ ~r.result THEN g
      ELSE IF immediate THEN CloseBackingStore(g, identifier, ub)
      ELSE IF identifier \notin DOMAIN g.backing_store_map_
        \* backing_store_map_[identifier] inserts a null scoped_refptr, and
        \* ->close_timer() dereferences it.
        THEN Abort(g)
      ELSE LET s == g.backing_store_map_[identifier]
               h == DCheck(g, g.stores[s].close_timer = {},
                           "ReleaseBackingStore:58")
           IN  IF h.crashed THEN h ELSE StartTimer(h, s, identifier)

\* IndexedDBFactory::ReleaseDatabase
ReleaseDatabase(f, identifier, backing_store_identifier, forcedClose, ub) ==
  LET found == identifier \in DOMAIN f.database_map_
      g == DCheck(f, found, "ReleaseDatabase:32")
  IN  IF g.crashed THEN g
      ELSE IF ~found
        THEN IF ub.erase_end = "crash" THEN Abort(g)
             ELSE ReleaseBackingStore(g, backing_store_identifier,
                                      forcedClose, ub)
      ELSE LET h == DCheck(g, g.databases[g.database_map_[identifier]]
                                 .backing_store = NoStore,
                           "ReleaseDatabase:33")
           IN  IF h.crashed THEN h
               ELSE ReleaseBackingStore(
                      [h EXCEPT !.database_map_ = MapErase(@, identifier)],
                      backing_store_identifier, forcedClose, ub)

\* The loop of ContextDestroyed over backing_store_map_, in key order.
RECURSIVE StopCloseTimers(_, _)
StopCloseTimers(f, keys) ==
  IF keys = <<>> THEN f
  ELSE StopCloseTimers(
         IF Head(keys) \in DOMAIN f.backing_store_map_
           THEN StopTimer(f, f.backing_store_map_[Head(keys)])
           ELSE f,
         Tail(keys))

\* A ContextDestroyed that stops the timers and leaves the entries.
ContextDestroyed_NoClear(f) == StopCloseTimers(f, FileIdentifierOrder)

\* IndexedDBFactory::ContextDestroyed
ContextDestroyed(f) ==
  [StopCloseTimers(f, FileIdentifierOrder) EXCEPT !.backing_store_map_ = <<>>]

\* IndexedDBFactory::IsBackingStoreOpenForTesting
IsBackingStoreOpenForTesting(origin_identifier) ==
  ComputeFileIdentifier(origin_identifier) \in DOMAIN backing_store_map_

\* What the storage backend answers to IndexedDBBackingStore::Open and
\* OpenInMemory: a store, a failure, or (from disk only) a failure with
\* *disk_full set.
OpenOutcomes(open_in_memory) ==
  IF open_in_memory THEN {"ok", "fail"} ELSE {"ok", "fail", "disk_full"}

\* IndexedDBBackingStore::OpenInMemory(file_identifier) or
\* IndexedDBBackingStore::Open(origin_identifier, data_directory, ...): the
\* call and its answer.
BackendOpen(f, open_in_memory, outcome) ==
  Call(f, <<IF open_in_memory THEN "IndexedDBBackingStore::OpenInMemory"
                              ELSE "IndexedDBBackingStore::Open", outcome>>)

\* An OpenBackingStore that does not insert an in-memory store into
\* session_only_backing_stores_.
OpenNewBackingStore_NotSessionOnly(f, origin_identifier, open_in_memory, outcome, disk_full) ==
  LET file_identifier == ComputeFileIdentifier(origin_identifier)
      asked == BackendOpen(f, open_in_memory, outcome)
  IN  IF outcome = "ok"
        THEN LET backing_store == NewStore(f, file_identifier)
                 g == [asked EXCEPT
                         !.stores = MapPut(@, backing_store,
                                      [identifier |-> file_identifier,
                                       in_memory |-> open_in_memory,
                                       close_timer |-> {}]),
                         !.backing_store_map_ =
                             MapPut(@, file_identifier, backing_store)]
             IN  [state |-> DCheck(g, g.session_only_backing_stores_ = {}
                                        \/ open_in_memory,
                                   "OpenBackingStore:213"),
                  backing_store |-> backing_store,
                  disk_full |-> IF open_in_memory THEN disk_full ELSE FALSE]
        ELSE [state |-> asked,
              backing_store |-> NoStore,
              disk_full |-> IF open_in_memory THEN disk_full
                            ELSE outcome = "disk_full"]

\* IndexedDBFactory::OpenBackingStore, when backing_store_map_ has no entry
\* for the file identifier: ask the backend, register what it returns.
\* disk_full is the caller's variable behind the out-parameter; the result
\* carries the state, the returned backing store and disk_full afterwards.
OpenNewBackingStore(f, origin_identifier, open_in_memory, outcome, disk_full) ==
  LET file_identifier == ComputeFileIdentifier(origin_identifier)
      asked == BackendOpen(f, open_in_memory, outcome)
  IN  IF outcome = "ok"
        THEN LET backing_store == NewStore(f, file_identifier)
                 g == [asked EXCEPT
                         !.stores = MapPut(@, backing_store,
                                      [identifier |-> file_identifier,
                                       in_memory |-> open_in_memory,
                                       close_timer |-> {}]),
                         !.backing_store_map_ =
                             MapPut(@, file_identifier, backing_store),
                         !.session_only_backing_stores_ =
                             IF open_in_memory THEN @ \cup {backing_store}
                                               ELSE @]
             IN  [state |-> DCheck(g, g.session_only_backing_stores_ = {}
                                        \/ open_in_memory,
                                   "OpenBackingStore:213"),
                  backing_store |-> backing_store,
                  disk_full |-> IF open_in_memory THEN disk_full ELSE FALSE]
        ELSE [state |-> asked,
              backing_store |-> NoStore,
              disk_full |-> IF open_in_memory THEN disk_full
                            ELSE outcome = "disk_full"]

\* An OpenBackingStore that never looks for a registered store.
OpenBackingStore_AlwaysOpens(f, origin_identifier, open_in_memory, outcome, disk_full) ==
  OpenNewBackingStore(f, origin_identifier, open_in_memory, outcome, disk_full)

\* An OpenBackingStore that reuses a registered store and leaves its timer.
OpenBackingStore_NoStop(f, origin_identifier, open_in_memory, outcome, disk_full) ==
  LET file_identifier == ComputeFileIdentifier(origin_identifier)
  IN  IF file_identifier \in DOMAIN f.backing_store_map_
        THEN [state |-> f,
              backing_store |-> f.backing_store_map_[file_identifier],
              disk_full |-> disk_full]
        ELSE OpenNewBackingStore(f, origin_identifier, open_in_memory,
                                 outcome, disk_full)

\* IndexedDBFactory::OpenBackingStore
OpenBackingStore(f, origin_identifier, open_in_memory, outcome, disk_full) ==
  LET file_identifier == ComputeFileIdentifier(origin_identifier)
  IN  IF file_identifier \in DOMAIN f.backing_store_map_
        THEN LET it2 == f.backing_store_map_[file_identifier]
             IN  [state |-> StopTimer(f, it2),
                  backing_store |-> it2,
                  disk_full |-> disk_full]
        ELSE OpenNewBackingStore(f, origin_identifier, open_in_memory,
                                 outcome, disk_full)

\* IndexedDBDatabase::Create(name, backing_store, this, unique_identifier):
\* the call and its answer, and the database object it returns when it
\* succeeds, which holds a reference to its backing store and has no
\* connection yet.
Create(f, create_ok) == Call(f, <<"IndexedDBDatabase::Create", create_ok>>)

CreatedDatabase(f, unique_identifier, backing_store) ==
  [id |-> NewDatabase(f, unique_identifier),
   identifier |-> unique_identifier,
   backing_store |-> backing_store,
   has_connections |-> FALSE]

\* database_map_[unique_identifier] = database, for a database just created.
Register(f, unique_identifier, database) ==
  [f EXCEPT !.databases = MapPut(@, database.id, database),
            !.database_map_ = MapPut(@, unique_identifier, database.id)]

\* database->OpenConnection(callbacks, database_callbacks, transaction_id,
\* version, data_loss): the call; the database has a connection or a pending
\* call from then on, until it closes.
OpenConnection(f, database) ==
  Call([f EXCEPT !.databases[database].has_connections = TRUE],
       <<"OpenConnection", database>>)

\* An Open that reports every backing-store failure as UnknownError.
OpenBackingStoreFailed_NoQuota(f, disk_full) ==
  Call(f, <<"OnError", "UnknownError",
            "Internal error opening backing store for indexedDB.open.">>)

\* IndexedDBFactory::Open, when OpenBackingStore returned null.
OpenBackingStoreFailed(f, disk_full) ==
  IF disk_full
    THEN Call(f, <<"OnError", "QuotaError",
         "Encountered full disk while opening backing store for indexedDB.open.">>)
    ELSE Call(f, <<"OnError", "UnknownError",
         "Internal error opening backing store for indexedDB.open.">>)

\* An Open that never looks for a registered database.
Open_NoLookup(f, name, origin_identifier, open_in_memory, outcome, create_ok) ==
  LET unique_identifier == Identifier(origin_identifier, name)
      r == OpenBackingStore(f, origin_identifier, open_in_memory, outcome,
                            FALSE)
      g == r.state
  IN  IF g.crashed THEN g
      ELSE IF r.backing_store = NoStore
        THEN OpenBackingStoreFailed(g, r.disk_full)
      ELSE IF ~create_ok
        THEN Call(Create(g, create_ok),
                  <<"OnError", "UnknownError",
                    "Internal error creating database backend for indexedDB.open.">>)
      ELSE LET database == CreatedDatabase(g, unique_identifier,
                                           r.backing_store)
           IN  OpenConnection(Register(Create(g, create_ok),
                                       unique_identifier, database),
                              database.id)

\* IndexedDBFactory::Open
Open(f, name, origin_identifier, open_in_memory, outcome, create_ok) ==
  LET unique_identifier == Identifier(origin_identifier, name)
  IN  IF unique_identifier \notin DOMAIN f.database_map_
        THEN LET r == OpenBackingStore(f, origin_identifier, open_in_memory,
                                       outcome, FALSE)
                 g == r.state
             IN  IF g.crashed THEN g
                 ELSE IF r.backing_store = NoStore
                   THEN OpenBackingStoreFailed(g, r.disk_full)
                 ELSE IF ~create_ok
                   THEN Call(Create(g, create_ok),
                             <<"OnError", "UnknownError",
                               "Internal error creating database backend for indexedDB.open.">>)
                 ELSE LET database == CreatedDatabase(g, unique_identifier,
                                                      r.backing_store)
                          h == Register(Create(g, create_ok),
                                        unique_identifier, database)
                      IN  OpenConnection(h, database.id)
      ELSE OpenConnection(f, f.database_map_[unique_identifier])

\* A DeleteDatabase that reports a full disk as Open does.
DeleteBackingStoreFailed_Quota(f, disk_full) ==
  IF disk_full
    THEN Call(f, <<"OnError", "QuotaError",
         "Encountered full disk while opening backing store for indexedDB.deleteDatabase.">>)
    ELSE Call(f, <<"OnError", "UnknownError",
         "Internal error opening backing store for indexedDB.deleteDatabase.">>)

\* IndexedDBFactory::DeleteDatabase, when OpenBackingStore returned null.
DeleteBackingStoreFailed(f, disk_full) ==
  Call(f, <<"OnError", "UnknownError",
       "Internal error opening backing store for indexedDB.deleteDatabase.">>)

\* A DeleteDatabase that leaves the database it created registered.
DeleteWithNewDatabase_NoErase(f, unique_identifier, backing_store) ==
  LET database == CreatedDatabase(f, unique_identifier, backing_store)
      g == Register(Create(f, TRUE), unique_identifier, database)
  IN  Call(g, <<"DeleteDatabase", database.id>>)

\* IndexedDBFactory::DeleteDatabase, once IndexedDBDatabase::Create has
\* returned a database: register it, delete through it, erase it.
DeleteWithNewDatabase(f, unique_identifier, backing_store) ==
  LET database == CreatedDatabase(f, unique_identifier, backing_store)
      g == Register(Create(f, TRUE), unique_identifier, database)
      h == Call(g, <<"DeleteDatabase", database.id>>)
  IN  [h EXCEPT !.database_map_ = MapErase(@, unique_identifier)]

\* IndexedDBFactory::DeleteDatabase, when database_map_ has no entry for the
\* identifier.
DeleteAbsentDatabase(f, name, origin_identifier, open_in_memory, outcome, create_ok) ==
  LET unique_identifier == Identifier(origin_identifier, name)
      r == OpenBackingStore(f, origin_identifier, open_in_memory, outcome,
                            FALSE)
      g == r.state
  IN  IF g.crashed THEN g
      ELSE IF r.backing_store = NoStore
        THEN DeleteBackingStoreFailed(g, r.disk_full)
      ELSE IF ~create_ok
        THEN Call(Create(g, create_ok),
                  <<"OnError", "UnknownError",
                    "Internal error creating database backend for indexedDB.deleteDatabase.">>)
      ELSE DeleteWithNewDatabase(g, unique_identifier, r.backing_store)

\* A DeleteDatabase that never looks for a registered database.
DeleteDatabase_NoLookup(f, name, origin_identifier, open_in_memory, outcome, create_ok) ==
  DeleteAbsentDatabase(f, name, origin_identifier, open_in_memory, outcome,
                       create_ok)

\* IndexedDBFactory::DeleteDatabase
DeleteDatabase(f, name, origin_identifier, open_in_memory, outcome, create_ok) ==
  LET unique_identifier == Identifier(origin_identifier, name)
  IN  IF unique_identifier \in DOMAIN f.database_map_
        THEN Call(f, <<"DeleteDatabase", f.database_map_[unique_identifier]>>)
        ELSE DeleteAbsentDatabase(f, name, origin_identifier, open_in_memory,
                                  outcome, create_ok)

\* A GetDatabaseNames that does not return after OnError.
GetDatabaseNames_NoReturn(f, origin_identifier, open_in_memory, outcome) ==
  LET r == OpenBackingStore(f, origin_identifier, open_in_memory, outcome,
                            "uninitialized")
      g == r.state
      h == IF r.backing_store = NoStore
             THEN Call(g, <<"OnError", "UnknownError",
                    "Internal error opening backing store for indexedDB.webkitGetDatabaseNames.">>)
             ELSE g
  IN  IF g.crashed THEN g
      ELSE Call(h, <<"OnSuccess", "GetDatabaseNames", r.backing_store>>)

\* IndexedDBFactory::GetDatabaseNames
GetDatabaseNames(f, origin_identifier, open_in_memory, outcome) ==
  LET r == OpenBackingStore(f, origin_identifier, open_in_memory, outcome,
                            "uninitialized")
      g == r.state
  IN  IF g.crashed THEN g
      ELSE IF r.backing_store = NoStore
        THEN Call(g, <<"OnError", "UnknownError",
               "Internal error opening backing store for indexedDB.webkitGetDatabaseNames.">>)
        ELSE Call(g, <<"OnSuccess", "GetDatabaseNames", r.backing_store>>)

\* The keys database_map_ can hold, in the order std::map iterates them:
\* pairs compare by origin identifier, then by name.
DatabaseIdentifierOrder ==
  [k \in 1..(Len(OriginOrder) * NumNames) |->
     Identifier(OriginOrder[((k - 1) \div NumNames) + 1],
                NameOrder[((k - 1) % NumNames) + 1])]

\* The loop of GetOpenDatabasesForOrigin over database_map_, in key order.
RECURSIVE PushBackDatabases(_, _, _, _)
PushBackDatabases(f, origin_identifier, keys, result) ==
  IF keys = <<>> THEN result
  ELSE PushBackDatabases(
         f, origin_identifier, Tail(keys),
         IF /\ Head(keys) \in DOMAIN f.database_map_
            /\ Head(keys)[1] = origin_identifier
           THEN Append(result, f.database_map_[Head(keys)])
           ELSE result)

\* A GetOpenDatabasesForOrigin that pushes every database, whatever its
\* origin.
GetOpenDatabasesForOrigin_NoFilter(f, origin_identifier) ==
  [state |-> f,
   result |-> [k \in 1..Len(SelectSeq(DatabaseIdentifierOrder,
                                      LAMBDA key : key \in DOMAIN f.database_map_))
                 |-> f.database_map_[SelectSeq(DatabaseIdentifierOrder,
                       LAMBDA key : key \in DOMAIN f.database_map_)[k]]]]

\* IndexedDBFactory::GetOpenDatabasesForOrigin (a const method: the state
\* it returns is the state it was given).
GetOpenDatabasesForOrigin(f, origin_identifier) ==
  [state |-> f,
   result |-> PushBackDatabases(f, origin_identifier,
                                DatabaseIdentifierOrder, <<>>)]

\* ---------------------------------------------------------------------
\* The state machine: one action per entry point or callback.

Init ==
  /\ backing_store_map_ = <<>>
  /\ session_only_backing_stores_ = {}
  /\ database_map_ = <<>>
  /\ stores = <<>>
  /\ databases = <<>>
  /\ context_destroyed = FALSE
  /\ dcheck_is_on \in BOOLEAN
  /\ dcheck_failed = {}
  /\ crashed = FALSE
  /\ last = [op |-> "IndexedDBFactory", args |-> <<>>, calls |-> <<>>]

\* The call returns (or the process aborts inside it): locals go out of
\* scope, unreferenced objects are destroyed, the members are as f has them.
Return(f, op, args) ==
  \E g \in {DestroyUnreferenced(f)} :
      /\ backing_store_map_' = g.backing_store_map_
      /\ session_only_backing_stores_' = g.session_only_backing_stores_
      /\ database_map_' = g.database_map_
      /\ stores' = g.stores
      /\ databases' = g.databases
      /\ dcheck_failed' = g.dcheck_failed
      /\ crashed' = g.crashed
      /\ last' = [op |-> op, args |-> args, calls |-> g.calls]
      /\ UNCHANGED dcheck_is_on

\* Open, DeleteDatabase and GetDatabaseNames are reached through the context
\* that owns the factory: none is called once the context is destroyed.
\* Databases and timers hold the factory themselves.

DoOpen ==
  /\ ~crashed /\ ~context_destroyed
  /\ \E name \in Names, origin_identifier \in Origins,
        open_in_memory \in BOOLEAN, create_ok \in BOOLEAN :
       \E outcome \in OpenOutcomes(open_in_memory) :
         Return(Open(Factory, name, origin_identifier, open_in_memory,
                     outcome, create_ok),
                "Open",
                [name |-> name, origin_identifier |-> origin_identifier])
  /\ UNCHANGED context_destroyed

DoDeleteDatabase ==
  /\ ~crashed /\ ~context_destroyed
  /\ \E name \in Names, origin_identifier \in Origins,
        open_in_memory \in BOOLEAN, create_ok \in BOOLEAN :
       \E outcome \in OpenOutcomes(open_in_memory) :
         Return(DeleteDatabase(Factory, name, origin_identifier,
                               open_in_memory, outcome, create_ok),
                "DeleteDatabase",
                [name |-> name, origin_identifier |-> origin_identifier])
  /\ UNCHANGED context_destroyed

DoGetDatabaseNames ==
  /\ ~crashed /\ ~context_destroyed
  /\ \E origin_identifier \in Origins, open_in_memory \in BOOLEAN :
       \E outcome \in OpenOutcomes(open_in_memory) :
         Return(GetDatabaseNames(Factory, origin_identifier, open_in_memory,
                                 outcome),
                "GetDatabaseNames",
                [origin_identifier |-> origin_identifier])
  /\ UNCHANGED context_destroyed

\* GetOpenDatabasesForOrigin is called by the context too; what it returns
\* is recorded with the call.
DoGetOpenDatabasesForOrigin ==
  /\ ~crashed /\ ~context_destroyed
  /\ \E origin_identifier \in Origins :
       LET r == GetOpenDatabasesForOrigin(Factory, origin_identifier)
       IN  Return(Call(r.state, <<"return", r.result>>),
                  "GetOpenDatabasesForOrigin",
                  [origin_identifier |-> origin_identifier])
  /\ UNCHANGED context_destroyed

\* The undefined outcomes to choose among in a call about identifier: they
\* differ only when the lookup of identifier fails.
UBOutcomesFor(identifier) ==
  IF identifier \in DOMAIN backing_store_map_
    THEN {[has_one_ref |-> "crash", erase_end |-> "crash"]}
    ELSE UBOutcomes

\* IndexedDBDatabase::Close, when a database loses its last connection and
\* has no pending call left: it drops its backing-store reference and then
\* calls ReleaseDatabase with its identifier and the backing store's
\* identifier.
DoReleaseDatabase ==
  /\ ~crashed
  /\ \E database \in {d \in DOMAIN databases : databases[d].has_connections},
        forcedClose \in BOOLEAN :
       LET identifier == databases[database].identifier
           backing_store == databases[database].backing_store
           backing_store_identifier == stores[backing_store].identifier
           cleared == [Factory EXCEPT
                         !.databases[database].backing_store = NoStore,
                         !.databases[database].has_connections = FALSE]
       IN  \E ub \in UBOutcomesFor(backing_store_identifier) :
             Return(ReleaseDatabase(cleared, identifier,
                                    backing_store_identifier, forcedClose, ub),
                    "ReleaseDatabase",
                    [identifier |-> identifier, forcedClose |-> forcedClose])
  /\ UNCHANGED context_destroyed

\* The close timer of a backing store expires: the timer is idle again and
\* runs the task bound at Start, MaybeCloseBackingStore(identifier).
DoMaybeCloseBackingStore ==
  /\ ~crashed
  /\ \E s \in DOMAIN stores :
       \E task \in stores[s].close_timer :
         \E ub \in UBOutcomesFor(task.identifier) :
           Return(MaybeCloseBackingStore(
                    [Factory EXCEPT !.stores[s].close_timer = {}],
                    task.identifier, ub),
                  "MaybeCloseBackingStore",
                  [identifier |-> task.identifier, backing_store |-> s])
  /\ UNCHANGED context_destroyed

DoContextDestroyed ==
  /\ ~crashed /\ ~context_destroyed
  /\ Return(ContextDestroyed(Factory), "ContextDestroyed", <<>>)
  /\ context_destroyed' = TRUE

Next ==
  \/ DoOpen
  \/ DoDeleteDatabase
  \/ DoGetDatabaseNames
  \/ DoGetOpenDatabasesForOrigin
  \/ DoReleaseDatabase
  \/ DoMaybeCloseBackingStore
  \/ DoContextDestroyed

Spec == Init /\ [][Next]_vars

\* The message loop runs the task of a close timer that stays armed.
LiveSpec == Spec /\ WF_vars(DoMaybeCloseBackingStore)

\* ---------------------------------------------------------------------
\* Properties

\* The call asked the storage backend to open a backing store.
BackendAsked(calls) ==
  \E i \in 1..Len(calls) :
    calls[i][1] \in {"IndexedDBBackingStore::Open",
                     "IndexedDBBackingStore::OpenInMemory"}

Called(calls, what) == \E i \in 1..Len(calls) : calls[i] = what

TimerRunning(s) == stores[s].close_timer # {}

\* C1: an Open on an origin whose backing store is registered gets that same
\* backing store: the registry is unchanged, no backing store is created,
\* the backend is not asked, and the database of the call (a new entry when
\* the name was absent and Create succeeded) holds the registered instance.
C1_OpenReusesBackingStore ==
  [][\A o \in Origins :
       (/\ last'.op = "Open"
        /\ last'.args.origin_identifier = o
        /\ ComputeFileIdentifier(o) \in DOMAIN backing_store_map_)
       => LET s == backing_store_map_[ComputeFileIdentifier(o)]
              uid == Identifier(o, last'.args.name)
          IN  /\ backing_store_map_' = backing_store_map_
              /\ DOMAIN stores' = DOMAIN stores
              /\ ~BackendAsked(last'.calls)
              /\ uid \in DOMAIN database_map_'
                   => databases'[database_map_'[uid]].backing_store = s
              /\ (/\ uid \notin DOMAIN database_map_
                  /\ Called(last'.calls, <<"IndexedDBDatabase::Create", TRUE>>))
                   => DOMAIN database_map_' = DOMAIN database_map_ \cup {uid}
    ]_vars

\* C1's case: the last call was an Open that created a second database on
\* an origin without asking the backend; both databases share the one store.
C1_Witness ==
  \E o \in Origins :
    /\ last.op = "Open"
    /\ last.args.origin_identifier = o
    /\ ~BackendAsked(last.calls)
    /\ Called(last.calls, <<"IndexedDBDatabase::Create", TRUE>>)
    /\ \E n, m \in Names :
         /\ n # m
         /\ last.args.name = m
         /\ {Identifier(o, n), Identifier(o, m)} \subseteq DOMAIN database_map_
         /\ databases[database_map_[Identifier(o, n)]].backing_store
              = backing_store_map_[ComputeFileIdentifier(o)]
         /\ databases[database_map_[Identifier(o, m)]].backing_store
              = backing_store_map_[ComputeFileIdentifier(o)]
    /\ Cardinality(DOMAIN stores) = 1

\* One step of the grace period, for C2. (a) A ReleaseDatabase without
\* forcedClose that leaves the registry the sole holder keeps the entry and
\* arms the timer. (b) While the timer of a registered store runs: its
\* expiry erases the entry exactly when the registry is the sole holder; a
\* call that opens the origin's backing store stops the timer and keeps the
\* same instance registered; every other step keeps it registered, except,
\* when teardown_erases, ContextDestroyed.
GracePeriodStep(teardown_erases) ==
  /\ (last'.op = "ReleaseDatabase" /\ ~last'.args.forcedClose /\ ~crashed')
       => \A i \in DOMAIN backing_store_map_ :
            LET s == backing_store_map_[i]
            IN  (/\ last'.args.identifier \in DOMAIN database_map_
                 /\ databases[database_map_[last'.args.identifier]]
                      .backing_store = s
                 /\ RefCount(Factory, s) = 2)
                => /\ i \in DOMAIN backing_store_map_'
                   /\ backing_store_map_'[i] = s
                   /\ stores'[s].close_timer # {}
  /\ \A i \in DOMAIN backing_store_map_ :
       LET s == backing_store_map_[i]
       IN  TimerRunning(s) =>
             IF last'.op = "MaybeCloseBackingStore"
                /\ last'.args.identifier = i
               THEN /\ (i \notin DOMAIN backing_store_map_')
                         <=> (RefCount(Factory, s) = 1)
                    /\ i \in DOMAIN backing_store_map_'
                         => backing_store_map_'[i] = s
             ELSE IF teardown_erases /\ last'.op = "ContextDestroyed"
               THEN i \notin DOMAIN backing_store_map_'
             ELSE /\ i \in DOMAIN backing_store_map_'
                  /\ backing_store_map_'[i] = s
                  /\ (/\ last'.op \in {"Open", "DeleteDatabase",
                                       "GetDatabaseNames"}
                      /\ ComputeFileIdentifier(
                           last'.args.origin_identifier) = i)
                     => /\ stores'[s].close_timer = {}
                        /\ Called(last'.calls,
                                  <<"close_timer()->Stop", s, TRUE>>)

\* C2 as claimed: after a release without forcedClose that leaves the
\* registry the sole holder, the entry stays registered until the timer
\* expires, and is erased at expiry only if the registry is still the sole
\* holder; a reopen before expiry stops the timer and keeps the entry.
C2_StaysUntilExpiry == [][GracePeriodStep(FALSE)]_vars

\* C2 as amended: the same, except that ContextDestroyed erases the entry
\* without waiting for the expiry.
C2_GracePeriod == [][GracePeriodStep(TRUE)]_vars

\* C2's case: an Open within the grace period stopped a running timer, and
\* the store it was armed on is still the registered one, now held by the
\* database of the Open.
C2_Witness ==
  \E i \in DOMAIN backing_store_map_ :
    /\ last.op = "Open"
    /\ Called(last.calls, <<"close_timer()->Stop", backing_store_map_[i], TRUE>>)
    /\ ~TimerRunning(backing_store_map_[i])
    /\ \E k \in DOMAIN database_map_ :
         databases[database_map_[k]].backing_store = backing_store_map_[i]

\* C3: a backing store whose close timer is running is registered and the
\* registry's reference is the only one to it.
C3_TimerImpliesSoleHolder ==
  \A s \in DOMAIN stores :
    TimerRunning(s)
      => /\ \E i \in DOMAIN backing_store_map_ : backing_store_map_[i] = s
         /\ RefCount(Factory, s) = 1

\* C3's case: a timer is running after a release, while another origin's
\* store is held by a database.
C3_Witness ==
  /\ last.op = "ReleaseDatabase"
  /\ \E s \in DOMAIN stores : TimerRunning(s)
  /\ \E k \in DOMAIN database_map_ :
       databases[database_map_[k]].backing_store # NoStore

\* C4: a DeleteDatabase for an identifier with no entry in database_map_
\* leaves no entry for it, whatever the backend and Create answered.
C4_DeleteLeavesNoEntry ==
  [][\A o \in Origins, n \in Names :
       (/\ last'.op = "DeleteDatabase"
        /\ last'.args.origin_identifier = o
        /\ last'.args.name = n
        /\ Identifier(o, n) \notin DOMAIN database_map_)
       => Identifier(o, n) \notin DOMAIN database_map_'
    ]_vars

\* C4's case: the last call was a DeleteDatabase that ran the delete on a
\* database it created, and the identifier has no entry.
C4_Witness ==
  /\ last.op = "DeleteDatabase"
  /\ Called(last.calls, <<"IndexedDBDatabase::Create", TRUE>>)
  /\ \E i \in 1..Len(last.calls) : last.calls[i][1] = "DeleteDatabase"
  /\ Identifier(last.args.origin_identifier, last.args.name)
       \notin DOMAIN database_map_

\* C5: a DeleteDatabase for an identifier with an entry in database_map_
\* calls DeleteDatabase on that entry's database and nothing else; the
\* registry of backing stores, the stores with their timers and
\* database_map_ are unchanged.
C5_DeleteRoutesToExisting ==
  [][\A o \in Origins, n \in Names :
       (/\ last'.op = "DeleteDatabase"
        /\ last'.args.origin_identifier = o
        /\ last'.args.name = n
        /\ Identifier(o, n) \in DOMAIN database_map_)
       => /\ last'.calls
               = << <<"DeleteDatabase", database_map_[Identifier(o, n)]>> >>
          /\ UNCHANGED <<backing_store_map_, stores, database_map_,
                         databases, session_only_backing_stores_>>
    ]_vars

\* C5's case: the last call was a DeleteDatabase handed to the registered
\* database of its identifier.
C5_Witness ==
  LET uid == Identifier(last.args.origin_identifier, last.args.name)
  IN  /\ last.op = "DeleteDatabase"
      /\ uid \in DOMAIN database_map_
      /\ last.calls = << <<"DeleteDatabase", database_map_[uid]>> >>

\* C6: ContextDestroyed leaves backing_store_map_ empty and no close timer
\* running, in the same step, whether timers were running or not; once it
\* has run, no step is a timer expiry (MaybeCloseBackingStore) and no timer
\* is ever running again.
C6_TeardownStopsTimers ==
  [][/\ last'.op = "ContextDestroyed"
          => /\ backing_store_map_' = <<>>
             /\ \A s \in DOMAIN stores' : stores'[s].close_timer = {}
     /\ context_destroyed
          => /\ last'.op # "MaybeCloseBackingStore"
             /\ \A s \in DOMAIN stores' : stores'[s].close_timer = {}
    ]_vars

\* C6's case: ContextDestroyed has just stopped a timer that was running.
C6_Witness ==
  /\ context_destroyed
  /\ last.op = "ContextDestroyed"
  /\ \E i \in 1..Len(last.calls) :
       /\ last.calls[i][1] = "close_timer()->Stop"
       /\ last.calls[i][3] = TRUE
  /\ backing_store_map_ = <<>>

\* C7: at most one live backing store per file identifier, and every
\* database that holds a backing store holds the instance that
\* backing_store_map_ holds for that store's identifier.
C7_OneSharedInstance ==
  /\ \A s, u \in DOMAIN stores :
       stores[s].identifier = stores[u].identifier => s = u
  /\ \A d \in DOMAIN databases :
       LET s == databases[d].backing_store
       IN  s # NoStore
             => /\ stores[s].identifier \in DOMAIN backing_store_map_
                /\ backing_store_map_[stores[s].identifier] = s

\* C8: no disk-backed store is registered while session_only_backing_stores_
\* is non-empty, and the DCHECK of OpenBackingStore that all stores are of
\* the same type has never failed.
C8_SameTypeStores ==
  /\ session_only_backing_stores_ # {}
       => \A i \in DOMAIN backing_store_map_ :
            stores[backing_store_map_[i]].in_memory
  /\ "OpenBackingStore:213" \notin dcheck_failed

\* The backend's answer to the call's request to open a backing store, when
\* that request is the first thing the call did.
BackendFailed(calls) ==
  /\ Len(calls) > 0
  /\ calls[1][1] \in {"IndexedDBBackingStore::Open",
                      "IndexedDBBackingStore::OpenInMemory"}
  /\ calls[1][2] # "ok"

\* C9: an Open for an identifier with no entry whose backing-store open
\* fails calls OnError once, with QuotaError when the backend set disk_full
\* and UnknownError otherwise, calls nothing else (no Create, no
\* OpenConnection), and leaves both maps and the stores unchanged.
C9_OpenFailureReported ==
  [][(/\ last'.op = "Open"
      /\ Identifier(last'.args.origin_identifier, last'.args.name)
           \notin DOMAIN database_map_
      /\ BackendFailed(last'.calls))
     => /\ Len(last'.calls) = 2
        /\ last'.calls[2] =
             IF last'.calls[1][2] = "disk_full"
               THEN <<"OnError", "QuotaError",
                      "Encountered full disk while opening backing store for indexedDB.open.">>
               ELSE <<"OnError", "UnknownError",
                      "Internal error opening backing store for indexedDB.open.">>
        /\ UNCHANGED <<database_map_, databases, backing_store_map_, stores,
                       session_only_backing_stores_>>
    ]_vars

\* C9's case: the last Open was told the disk is full and reported
\* QuotaError.
C9_Witness ==
  /\ last.op = "Open"
  /\ Len(last.calls) = 2
  /\ last.calls[1] = <<"IndexedDBBackingStore::Open", "disk_full">>
  /\ last.calls[2][1] = "OnError"
  /\ last.calls[2][2] = "QuotaError"

\* C10 as claimed: a DeleteDatabase whose backing-store open fails reports
\* as Open does, QuotaError when the backend set disk_full and UnknownError
\* otherwise.
C10_DeleteReportsLikeOpen ==
  (last.op = "DeleteDatabase" /\ BackendFailed(last.calls))
    => /\ Len(last.calls) = 2
       /\ last.calls[2][1] = "OnError"
       /\ last.calls[2][2] = IF last.calls[1][2] = "disk_full"
                               THEN "QuotaError" ELSE "UnknownError"

\* C10 as amended: a DeleteDatabase for an identifier with no entry whose
\* backing-store open fails calls OnError once with UnknownError, whether or
\* not the backend set disk_full, calls nothing else, and leaves both maps
\* and the stores unchanged.
C10_DeleteFailureReported ==
  [][(/\ last'.op = "DeleteDatabase"
      /\ Identifier(last'.args.origin_identifier, last'.args.name)
           \notin DOMAIN database_map_
      /\ BackendFailed(last'.calls))
     => /\ Len(last'.calls) = 2
        /\ last'.calls[2] =
             <<"OnError", "UnknownError",
               "Internal error opening backing store for indexedDB.deleteDatabase.">>
        /\ UNCHANGED <<database_map_, databases, backing_store_map_, stores,
                       session_only_backing_stores_>>
    ]_vars

\* C10's case: the last DeleteDatabase was told the disk is full and
\* reported UnknownError.
C10_Witness ==
  /\ last.op = "DeleteDatabase"
  /\ Len(last.calls) = 2
  /\ last.calls[1] = <<"IndexedDBBackingStore::Open", "disk_full">>
  /\ last.calls[2][1] = "OnError"
  /\ last.calls[2][2] = "UnknownError"

\* The backing store that the database of a ReleaseDatabase step holds when
\* the step begins, as seen from the state before the step; NoStore when the
\* step is something else.
ReleasedStore ==
  IF /\ last'.op = "ReleaseDatabase"
     /\ last'.args.identifier \in DOMAIN database_map_
    THEN databases[database_map_[last'.args.identifier]].backing_store
    ELSE NoStore

\* C11: a ReleaseDatabase with forcedClose, by the last holder of a
\* registered backing store other than the registry, erases the store's
\* entry within the call (IsBackingStoreOpenForTesting is false on return),
\* stops its close timer, and leaves no timer whose task is for that
\* identifier: the store is destroyed, and its timer with it.
C11_ForcedCloseErasesAtOnce ==
  [][\A o \in Origins :
       LET i == ComputeFileIdentifier(o)
       IN  (/\ last'.op = "ReleaseDatabase"
            /\ last'.args.forcedClose
            /\ i \in DOMAIN backing_store_map_
            /\ ReleasedStore = backing_store_map_[i]
            /\ RefCount(Factory, backing_store_map_[i]) = 2)
           => /\ ~IsBackingStoreOpenForTesting(o)'
              /\ \E n \in 1..Len(last'.calls) :
                   /\ last'.calls[n][1] = "close_timer()->Stop"
                   /\ last'.calls[n][2] = backing_store_map_[i]
              /\ backing_store_map_[i] \notin DOMAIN stores'
              /\ \A u \in DOMAIN stores' :
                   \A task \in stores'[u].close_timer : task.identifier # i
              /\ ~crashed'
    ]_vars

\* C11's case: the last call was a ReleaseDatabase with forcedClose that
\* stopped the timer of its origin's store and erased the entry, while
\* another origin's store stays registered.
C11_Witness ==
  /\ last.op = "ReleaseDatabase"
  /\ last.args.forcedClose
  /\ ~crashed /\ ~context_destroyed
  /\ ~IsBackingStoreOpenForTesting(last.args.identifier[1])
  /\ \E n \in 1..Len(last.calls) : last.calls[n][1] = "close_timer()->Stop"
  /\ backing_store_map_ # <<>>

\* C12: a ReleaseDatabase by a holder of a registered backing store that has
\* another holder besides the registry changes neither backing_store_map_
\* nor any store or timer, and stops no timer, whatever forcedClose is; the
\* release by the last holder besides the registry is the one that erases
\* the entry or arms the timer.
C12_ReleaseIsNoOpWhileShared ==
  [][\A i \in DOMAIN backing_store_map_ :
       LET s == backing_store_map_[i]
       IN  ReleasedStore = s
           => IF RefCount(Factory, s) > 2
                THEN /\ UNCHANGED <<backing_store_map_, stores,
                                    session_only_backing_stores_>>
                     /\ last'.calls = <<>>
                ELSE \/ i \notin DOMAIN backing_store_map_'
                     \/ stores'[s].close_timer # {}
    ]_vars

\* C12's case: the last call released one of two databases on a disk-backed
\* store; the other still holds it, the store is registered and its timer
\* is idle.
C12_Witness ==
  /\ last.op = "ReleaseDatabase"
  /\ last.calls = <<>>
  /\ ~crashed
  /\ \E i \in DOMAIN backing_store_map_ :
       LET s == backing_store_map_[i]
       IN  /\ i = ComputeFileIdentifier(last.args.identifier[1])
           /\ ~stores[s].in_memory
           /\ ~TimerRunning(s)
           /\ \E d \in DOMAIN databases : databases[d].backing_store = s

\* C13: the timer of a backing store is never started while it is running:
\* the DCHECK of ReleaseBackingStore that the timer is idle has held every
\* time it was reached.
C13_TimerNeverArmedTwice == "ReleaseBackingStore:58" \notin dcheck_failed

\* C13's case: a release without forcedClose has just armed the timer of its
\* origin's store while the timer of another origin's store is running, and
\* no DCHECK has failed.
C13_Witness ==
  /\ last.op = "ReleaseDatabase"
  /\ ~last.args.forcedClose
  /\ dcheck_failed = {}
  /\ \E i, j \in DOMAIN backing_store_map_ :
       /\ i = ComputeFileIdentifier(last.args.identifier[1])
       /\ j # i
       /\ TimerRunning(backing_store_map_[i])
       /\ TimerRunning(backing_store_map_[j])

\* The completion callbacks among the calls of a request.
Callbacks(calls) ==
  {n \in 1..Len(calls) : calls[n][1] \in {"OnError", "OnSuccess"}}

C16_GetOpenDatabasesIsPureRead ==
  [][last'.op = "GetOpenDatabasesForOrigin"
     => LET result == last'.calls[1][2]
            matching == {k \in DOMAIN database_map_ :
                           k[1] = last'.args.origin_identifier}
        IN  /\ last'.calls = << <<"return", result>> >>
            /\ {result[n] : n \in 1..Len(result)}
                 = {database_map_[k] : k \in matching}
            /\ Len(result) = Cardinality(matching)
            /\ UNCHANGED <<backing_store_map_, database_map_, databases,
                           stores, session_only_backing_stores_,
                           dcheck_failed, crashed>>
    ]_vars

\* C16's case: the last call returned the one database of its origin while
\* two databases of the other origin are registered.
C16_Witness ==
  /\ last.op = "GetOpenDatabasesForOrigin"
  /\ Len(last.calls[1][2]) = 1
  /\ Cardinality({k \in DOMAIN database_map_ :
                    k[1] # last.args.origin_identifier}) = 2

\* C17: an Open for an identifier with an entry in database_map_ calls
\* OpenConnection on that entry's database and nothing else (the backend is
\* not asked, no timer is stopped, no database is created), and leaves both
\* maps, the databases, the stores and their timers unchanged.
C17_OpenReusesDatabase ==
  [][\A o \in Origins, n \in Names :
       (/\ last'.op = "Open"
        /\ last'.args.origin_identifier = o
        /\ last'.args.name = n
        /\ Identifier(o, n) \in DOMAIN database_map_)
       => /\ last'.calls
               = << <<"OpenConnection", database_map_[Identifier(o, n)]>> >>
          /\ UNCHANGED <<backing_store_map_, database_map_, databases,
                         stores, session_only_backing_stores_,
                         dcheck_failed, crashed>>
    ]_vars

\* C17's case: the last call was an Open handed to the registered database
\* of its identifier, while the timer of another origin's store is running.
C17_Witness ==
  LET uid == Identifier(last.args.origin_identifier, last.args.name)
  IN  /\ last.op = "Open"
      /\ uid \in DOMAIN database_map_
      /\ last.calls = << <<"OpenConnection", database_map_[uid]>> >>
      /\ \E s \in DOMAIN stores : TimerRunning(s)

\* A disk-backed store is registered under identifier i and the registry's
\* reference is the only one to it.
SoleHeldDiskStore(i) ==
  /\ ~crashed
  /\ i \in DOMAIN backing_store_map_
  /\ ~stores[backing_store_map_[i]].in_memory
  /\ RefCount(Factory, backing_store_map_[i]) = 1

\* C18: a registered disk-backed store that only the registry holds is
\* eventually closed or held again, given that armed timers fire.
C18_SoleHeldStoreEventuallyCloses ==
  \A i \in {ComputeFileIdentifier(o) : o \in Origins} :
    SoleHeldDiskStore(i) ~> ~SoleHeldDiskStore(i)

\* C19: an in-memory store that is registered has its timer idle, and every
\* step other than ContextDestroyed keeps it registered with its timer
\* idle, a release with or without forcedClose and a timer expiry included;
\* ContextDestroyed removes it. No in-memory store ever has its timer
\* running.
C19_InMemoryStoreStaysRegistered ==
  [][/\ \A i \in DOMAIN backing_store_map_ :
          LET s == backing_store_map_[i]
          IN  stores[s].in_memory
                => /\ s \in session_only_backing_stores_
                   /\ RefCount(Factory, s) >= 2
                   /\ IF last'.op = "ContextDestroyed"
                        THEN i \notin DOMAIN backing_store_map_'
                        ELSE /\ i \in DOMAIN backing_store_map_'
                             /\ backing_store_map_'[i] = s
     /\ \A s \in DOMAIN stores' :
          stores'[s].in_memory => stores'[s].close_timer = {}
    ]_vars

\* C19's case: the last database of an in-memory store has just released
\* it; the store is still registered, the registry and the session-only set
\* hold it, and its timer is idle.
C19_Witness ==
  /\ last.op = "ReleaseDatabase"
  /\ ~crashed
  /\ \E i \in DOMAIN backing_store_map_ :
       LET s == backing_store_map_[i]
       IN  /\ i = ComputeFileIdentifier(last.args.identifier[1])
           /\ stores[s].in_memory
           /\ RefCount(Factory, s) = 2
           /\ ~TimerRunning(s)

\* C20: the DCHECKs of HasLastBackingStoreReference and CloseBackingStore
\* that the identifier has an entry in backing_store_map_ have held every
\* time they were reached.
C20_EntryExistsWhenExpected ==
  /\ "HasLastBackingStoreReference:88" \notin dcheck_failed
  /\ "CloseBackingStore:74" \notin dcheck_failed

====
